---- MODULE Spec2Model ----
(***************************************************************************)
(* A model of the movielix API request handlers (src/movielix/views.py).   *)
(* The Entity Store is a set of tables (sets of rows keyed by an           *)
(* auto-increment id); every handler is one action under Spec, where       *)
(* requests are served one at a time, and the three check-then-insert      *)
(* handlers are split at their store operations under ConcSpec, where      *)
(* requests interleave.                                                    *)
(***************************************************************************)
EXTENDS Integers, Sequences, FiniteSets, TLC

\* ------------------------------------------------------------------ bounds
MaxReq == 2        \* requests served in one behaviour of Spec
MaxUsers == 3      \* cap of the User id sequence
MaxIds == 2        \* cap of the Movie, Collection, Watchlist, MovieReview, Favorite ids
MaxTags == 2       \* cap of the Tag id sequence

\* ------------------------------------------------------------------ values
Anon == 0          \* the unauthenticated actor (AnonymousUser)
Missing == 0       \* a key absent from the request body (data.get -> None)

\* A body field of the registration request: the key absent, JSON null, or a string
\* (a sequence of characters).
Field(kind, str) == [kind |-> kind, s |-> str]

UsernameFields == {Field("null", <<>>), Field("str", <<" ", "a", " ">>),
                   Field("str", <<"z", " ", "z">>)}
EmailFields == {Field("absent", <<>>), Field("str", <<"e">>)}
PasswordFields == {Field("str", <<" ">>), Field("str", <<" ", "w">>),
                   Field("str", <<"s", " ">>)}

NoFields == <<Field("absent", <<>>), Field("absent", <<>>), Field("absent", <<>>)>>

\* The passwords the credential-strength policy refuses.
WeakPasswords == {<<"w">>}

Titles == {"Alien", "Brazil"}

UserIds == 1..MaxUsers
MovieIds == 1..MaxIds
CollIds == 1..MaxIds
TagIds == 1..MaxTags

VARIABLES
    users,        \* User rows        [id, username]
    movies,       \* Movie rows       [id, added_by, title]
    tags,         \* Tag rows         [id]
    collections,  \* Collection rows  [id, user, is_public, tags]
    watchlist,    \* Watchlist rows   [id, collection_id, movie_id]
    reviews,      \* MovieReview rows [id, movie_id, user]
    favorites,    \* Favorite rows    [id, user, collection]
    seq,          \* last id issued per table
    last,         \* the most recent request and its response
    inflight      \* ConcSpec: the request each worker slot is serving

store == <<users, movies, tags, collections, watchlist, reviews, favorites, seq>>
vars == <<users, movies, tags, collections, watchlist, reviews, favorites, seq,
          last, inflight>>

\* ------------------------------------------------------------------ store helpers
Exists(table, pk) == \E r \in table : r.id = pk
Row(table, pk) == CHOOSE r \in table : r.id = pk

\* str.strip(): drop leading and trailing whitespace.
RECURSIVE LStrip(_)
LStrip(s) == IF s # <<>> /\ Head(s) = " " THEN LStrip(Tail(s)) ELSE s

RECURSIVE RStrip(_)
RStrip(s) ==
    IF s # <<>> /\ s[Len(s)] = " " THEN RStrip(SubSeq(s, 1, Len(s) - 1)) ELSE s

Strip(s) == RStrip(LStrip(s))

\* Every request passes for authenticated.
IsAuthenticated_Anyone(a) == TRUE

IsAuthenticated(a) == a # Anon

\* The record of a request: the handler, the actor, the ids it names, whether its
\* body is well formed, its registration fields and the username stripped from them,
\* and the response's status, message and data (the rows it serializes, each as
\* <<table, id>>).
Request(op, a, x, y, wf, fields, name, st, msg) ==
    [op |-> op, actor |-> a, x |-> x, y |-> y, wellformed |-> wf, fields |-> fields,
     name |-> name, status |-> st, msg |-> msg, data |-> {}]

Respond(op, a, x, y, st, msg) ==
    last' = [n |-> last.n + 1,
             req |-> Request(op, a, x, y, TRUE, NoFields, <<>>, st, msg)]

\* The response to a request whose body may be malformed.
RespondBody(op, a, x, y, wf, st, msg) ==
    last' = [n |-> last.n + 1,
             req |-> Request(op, a, x, y, wf, NoFields, <<>>, st, msg)]

\* A read: the response carries rows and the store stays as it is. A read closes
\* the behaviour explored (n reaches MaxReq): the requests after it would meet the
\* store they meet without it.
Serve(op, a, x, y, table, rows) ==
    /\ last' = [n |-> MaxReq,
                req |-> [Request(op, a, x, y, TRUE, NoFields, <<>>, "OK", table)
                            EXCEPT !.data = {<<table, r.id>> : r \in rows}]]
    /\ UNCHANGED <<store, inflight>>

\* A read refused.
Deny(op, a, x, y, st, msg) ==
    /\ last' = [n |-> MaxReq, req |-> Request(op, a, x, y, TRUE, NoFields, <<>>, st, msg)]
    /\ UNCHANGED <<store, inflight>>

Actors == {Anon} \cup {u.id : u \in users}

\* The users registered before the first request.
InitUsers == {[id |-> 1, username |-> <<"a">>], [id |-> 2, username |-> <<"b">>]}

NoRequest == Request("none", Anon, 0, 0, TRUE, NoFields, <<>>, "NONE", "none")

\* A worker slot that has not taken a request.
Idle == [pc |-> "idle", via |-> "idle", req |-> NoRequest]

\* The store before the first request: the registered users, a tag, and a movie,
\* a review of it and a collection carrying the tag, all of user 1.
InitWith(public) ==
    /\ users = InitUsers
    /\ movies = {[id |-> 1, added_by |-> 1, title |-> "Alien"]}
    /\ tags = {[id |-> 1]}
    /\ collections = {[id |-> 1, user |-> 1, is_public |-> public, tags |-> {1}]}
    /\ watchlist = {}
    /\ reviews = {[id |-> 1, movie_id |-> 1, user |-> 1]}
    /\ favorites = {}
    /\ seq = [user |-> Cardinality(InitUsers), movie |-> 1, tag |-> 1, collection |-> 1,
              watchlist |-> 0, review |-> 1, favorite |-> 0]
    /\ last = [n |-> 0, req |-> NoRequest]
    /\ inflight = [s \in {"w1", "w2"} |-> Idle]

\* The first collection starts private.
Init == InitWith(FALSE)

\* The same store after the owner has shared the first collection.
InitShared == InitWith(TRUE)

\* A request that ends without touching the store.
Reject(op, a, x, y, st, msg) ==
    /\ Respond(op, a, x, y, st, msg)
    /\ UNCHANGED <<store, inflight>>

\* ------------------------------------------------------------------ Movie
\* MovieListView.post
MoviePost(a, title, valid) ==
    /\ last.n < MaxReq
    /\ valid => seq.movie < MaxIds
    /\ IF ~IsAuthenticated(a)
       THEN /\ Respond("MoviePost", a, 0, 0, "UNAUTHORIZED", "not authenticated")
            /\ UNCHANGED <<store, inflight>>
       ELSE IF valid
       THEN /\ movies' = movies \cup
                    {[id |-> seq.movie + 1, added_by |-> a, title |-> title]}
            /\ seq' = [seq EXCEPT !.movie = @ + 1]
            /\ Respond("MoviePost", a, seq.movie + 1, 0, "CREATED", "movie")
            /\ UNCHANGED <<users, tags, collections, watchlist, reviews, favorites,
                           inflight>>
       ELSE /\ Respond("MoviePost", a, 0, 0, "BAD_REQUEST", "serializer errors")
            /\ UNCHANGED <<store, inflight>>

\* The owner test left out: every authenticated actor passes.
OwnsMovie_Anyone(a, m) == TRUE

\* The owner test of MovieDetailView.patch and MovieDetailView.delete.
OwnsMovie(a, m) == ~(m.added_by # a)

\* MovieDetailView.patch: only title is writable through MovieSerializer.
MoviePatch(a, pk, title, valid) ==
    /\ last.n < MaxReq
    /\ IF ~IsAuthenticated(a)
       THEN /\ Respond("MoviePatch", a, pk, 0, "UNAUTHORIZED", "not authenticated")
            /\ UNCHANGED <<store, inflight>>
       ELSE IF ~Exists(movies, pk)
       THEN /\ Respond("MoviePatch", a, pk, 0, "NOT_FOUND", "not found")
            /\ UNCHANGED <<store, inflight>>
       ELSE IF ~OwnsMovie(a, Row(movies, pk))
       THEN /\ Respond("MoviePatch", a, pk, 0, "FORBIDDEN", "no permission to edit movie")
            /\ UNCHANGED <<store, inflight>>
       ELSE IF valid
       THEN /\ movies' = (movies \ {Row(movies, pk)})
                         \cup {[Row(movies, pk) EXCEPT !.title = title]}
            /\ Respond("MoviePatch", a, pk, 0, "OK", "movie")
            /\ UNCHANGED <<users, tags, collections, watchlist, reviews, favorites,
                           seq, inflight>>
       ELSE /\ Respond("MoviePatch", a, pk, 0, "BAD_REQUEST", "serializer errors")
            /\ UNCHANGED <<store, inflight>>

\* MovieDetailView.delete; the store cascades the movie's Watchlist and MovieReview rows.
MovieDelete(a, pk) ==
    /\ last.n < MaxReq
    /\ IF ~IsAuthenticated(a)
       THEN /\ Respond("MovieDelete", a, pk, 0, "UNAUTHORIZED", "not authenticated")
            /\ UNCHANGED <<store, inflight>>
       ELSE IF ~Exists(movies, pk)
       THEN /\ Respond("MovieDelete", a, pk, 0, "NOT_FOUND", "not found")
            /\ UNCHANGED <<store, inflight>>
       ELSE IF ~OwnsMovie(a, Row(movies, pk))
       THEN /\ Respond("MovieDelete", a, pk, 0, "FORBIDDEN", "no permission to delete movie")
            /\ UNCHANGED <<store, inflight>>
       ELSE /\ movies' = movies \ {Row(movies, pk)}
            /\ watchlist' = {w \in watchlist : w.movie_id # pk}
            /\ reviews' = {r \in reviews : r.movie_id # pk}
            /\ Respond("MovieDelete", a, pk, 0, "NO_CONTENT", "none")
            /\ UNCHANGED <<users, tags, collections, favorites, seq, inflight>>

\* ------------------------------------------------------------------ Tag
\* TagListView.post (AllowAny)
TagPost(a, valid) ==
    /\ last.n < MaxReq
    /\ valid => seq.tag < MaxTags
    /\ IF valid
       THEN /\ tags' = tags \cup {[id |-> seq.tag + 1]}
            /\ seq' = [seq EXCEPT !.tag = @ + 1]
            /\ Respond("TagPost", a, seq.tag + 1, 0, "CREATED", "tag")
            /\ UNCHANGED <<users, movies, collections, watchlist, reviews, favorites,
                           inflight>>
       ELSE Reject("TagPost", a, 0, 0, "BAD_REQUEST", "serializer errors")

\* The associations left as they are.
Detach_Nothing(pk) == collections

\* tag.collections.clear(): the Collection table with the tag taken out of every
\* collection's tag set.
Detach(pk) == {[c EXCEPT !.tags = @ \ {pk}] : c \in collections}

\* TagDetailView.delete: tag.collections.clear() and then tag.delete()
TagDelete(a, pk) ==
    /\ last.n < MaxReq
    /\ IF ~IsAuthenticated(a)
       THEN Reject("TagDelete", a, pk, 0, "UNAUTHORIZED", "not authenticated")
       ELSE IF ~Exists(tags, pk)
       THEN Reject("TagDelete", a, pk, 0, "NOT_FOUND", "not found")
       ELSE /\ collections' = Detach(pk)
            /\ tags' = tags \ {Row(tags, pk)}
            /\ Respond("TagDelete", a, pk, 0, "NO_CONTENT", "none")
            /\ UNCHANGED <<users, movies, watchlist, reviews, favorites, seq, inflight>>

\* ------------------------------------------------------------------ Collection
\* The body of a Collection create or PATCH: is_public supplied or omitted, tags
\* supplied (a set of Tag ids) or omitted, and whether the body is well formed.
\* The bodies explored supply at most one of the two fields.
CollBodies == [is_public : {"absent", "true", "false"}, tags : {{0}}, wellformed : {TRUE}]
              \cup [is_public : {"absent"}, tags : SUBSET TagIds, wellformed : {TRUE}]
              \cup {[is_public |-> "absent", tags |-> {0}, wellformed |-> FALSE]}

TagsOmitted == {0}

\* serializer.is_valid(): a malformed body or a reference to a missing Tag is refused.
CollBodyValid(body) ==
    /\ body.wellformed
    /\ body.tags # TagsOmitted => \A t \in body.tags : Exists(tags, t)

\* serializer.save() of a partial update: supplied fields replace, omitted fields stay.
MergePatch(c, body) ==
    [c EXCEPT !.is_public = IF body.is_public = "absent" THEN @ ELSE body.is_public = "true",
              !.tags = IF body.tags = TagsOmitted THEN @ ELSE body.tags]

\* CollectionListView.post
CollectionPost(a, body) ==
    /\ last.n < MaxReq
    /\ CollBodyValid(body) => seq.collection < MaxIds
    /\ IF ~IsAuthenticated(a)
       THEN Reject("CollectionPost", a, 0, 0, "UNAUTHORIZED", "not authenticated")
       ELSE IF CollBodyValid(body)
       THEN /\ collections' = collections \cup
                 {MergePatch([id |-> seq.collection + 1, user |-> a,
                              is_public |-> FALSE, tags |-> {}], body)}
            /\ seq' = [seq EXCEPT !.collection = @ + 1]
            /\ Respond("CollectionPost", a, seq.collection + 1, 0, "CREATED", "collection")
            /\ UNCHANGED <<users, movies, tags, watchlist, reviews, favorites, inflight>>
       ELSE Reject("CollectionPost", a, 0, 0, "BAD_REQUEST", "serializer errors")

\* The read rule without its is_public disjunct.
CanView_OwnerOnly(a, c) == c.user = a

\* Anyone may read.
CanView_Anyone(a, c) == TRUE

\* The read rule of CollectionDetailView.get and the favorite rule of FavoriteListView.post.
CanView(a, c) == ~(c.user # a /\ ~c.is_public)

\* CollectionDetailView.get
CollectionGet(a, pk) ==
    /\ last.n < MaxReq
    /\ IF ~IsAuthenticated(a)
       THEN Deny("CollectionGet", a, pk, 0, "UNAUTHORIZED", "not authenticated")
       ELSE IF ~Exists(collections, pk)
       THEN Deny("CollectionGet", a, pk, 0, "NOT_FOUND", "not found")
       ELSE IF ~CanView(a, Row(collections, pk))
       THEN Deny("CollectionGet", a, pk, 0, "FORBIDDEN", "no permission to view collection")
       ELSE Serve("CollectionGet", a, pk, 0, "collection", {Row(collections, pk)})

\* The read rule used where the owner test belongs.
OwnsCollection_OrPublic(a, c) == c.user = a \/ c.is_public

\* The owner test of CollectionDetailView.patch and CollectionDetailView.delete.
OwnsCollection(a, c) == ~(c.user # a)

\* CollectionDetailView.patch
CollectionPatch(a, pk, body) ==
    /\ last.n < MaxReq
    /\ IF ~IsAuthenticated(a)
       THEN Reject("CollectionPatch", a, pk, 0, "UNAUTHORIZED", "not authenticated")
       ELSE IF ~Exists(collections, pk)
       THEN Reject("CollectionPatch", a, pk, 0, "NOT_FOUND", "not found")
       ELSE IF ~OwnsCollection(a, Row(collections, pk))
       THEN Reject("CollectionPatch", a, pk, 0, "FORBIDDEN", "no permission to edit collection")
       ELSE IF CollBodyValid(body)
       THEN /\ collections' = (collections \ {Row(collections, pk)})
                              \cup {MergePatch(Row(collections, pk), body)}
            /\ Respond("CollectionPatch", a, pk, 0, "OK", "collection")
            /\ UNCHANGED <<users, movies, tags, watchlist, reviews, favorites, seq, inflight>>
       ELSE Reject("CollectionPatch", a, pk, 0, "BAD_REQUEST", "serializer errors")

\* CollectionDetailView.delete; the store cascades the collection's Watchlist and
\* Favorite rows.
CollectionDelete(a, pk) ==
    /\ last.n < MaxReq
    /\ IF ~IsAuthenticated(a)
       THEN Reject("CollectionDelete", a, pk, 0, "UNAUTHORIZED", "not authenticated")
       ELSE IF ~Exists(collections, pk)
       THEN Reject("CollectionDelete", a, pk, 0, "NOT_FOUND", "not found")
       ELSE IF ~OwnsCollection(a, Row(collections, pk))
       THEN Reject("CollectionDelete", a, pk, 0, "FORBIDDEN",
                   "no permission to delete collection")
       ELSE /\ collections' = collections \ {Row(collections, pk)}
            /\ watchlist' = {w \in watchlist : w.collection_id # pk}
            /\ favorites' = {f \in favorites : f.collection # pk}
            /\ Respond("CollectionDelete", a, pk, 0, "NO_CONTENT", "none")
            /\ UNCHANGED <<users, movies, tags, reviews, seq, inflight>>

\* ------------------------------------------------------------------ Watchlist
\* Watchlist.objects.filter(collection_id=..., movie_id=...)
WatchlistRows(cid, mid) == {w \in watchlist : w.collection_id = cid /\ w.movie_id = mid}

\* The pair (collection_id, movie_id) is unique in the Watchlist table.
WatchlistUnique(cid, mid) == WatchlistRows(cid, mid) = {}

\* The Watchlist table without its foreign keys.
WatchlistAccepts_NoForeignKeys(cid, mid) == WatchlistUnique(cid, mid)

\* The Watchlist table's constraints: both foreign keys resolve and the pair
\* (collection_id, movie_id) is unique.
WatchlistAccepts(cid, mid) ==
    /\ Exists(collections, cid)
    /\ Exists(movies, mid)
    /\ WatchlistUnique(cid, mid)

\* The movie lookup left out.
WatchlistAddBegin_NoLookup(a, mref) ==
    IF ~IsAuthenticated(a) THEN <<"UNAUTHORIZED", "not authenticated">>
    ELSE IF mref = Missing THEN <<"BAD_REQUEST", "movie_id is required">>
    ELSE <<"pass", "none">>

\* WatchlistByCollectionView.post, up to the movie lookup: "pass" or the error status.
WatchlistAddBegin(a, mref) ==
    IF ~IsAuthenticated(a) THEN <<"UNAUTHORIZED", "not authenticated">>
    ELSE IF mref = Missing THEN <<"BAD_REQUEST", "movie_id is required">>
    ELSE IF ~Exists(movies, mref) THEN <<"NOT_FOUND", "not found">>
    ELSE <<"pass", "none">>

\* The duplicate check left out.
WatchlistAddExists_Skipped(cid, mid) == FALSE

\* The duplicate check of WatchlistByCollectionView.post.
WatchlistAddExists(cid, mid) == WatchlistRows(cid, mid) # {}

\* WatchlistByCollectionView.post
WatchlistAdd(a, cid, mref) ==
    /\ last.n < MaxReq
    /\ WatchlistAddBegin(a, mref)[1] = "pass" /\ WatchlistAccepts(cid, mref)
          => seq.watchlist < MaxIds
    /\ IF WatchlistAddBegin(a, mref)[1] # "pass"
       THEN Reject("WatchlistAdd", a, cid, mref,
                   WatchlistAddBegin(a, mref)[1], WatchlistAddBegin(a, mref)[2])
       ELSE IF WatchlistAddExists(cid, mref)
       THEN Reject("WatchlistAdd", a, cid, mref, "BAD_REQUEST", "already in collection")
       ELSE IF WatchlistAccepts(cid, mref)
       THEN /\ watchlist' = watchlist \cup
                  {[id |-> seq.watchlist + 1, collection_id |-> cid, movie_id |-> mref]}
            /\ seq' = [seq EXCEPT !.watchlist = @ + 1]
            /\ Respond("WatchlistAdd", a, cid, mref, "CREATED", "watchlist")
            /\ UNCHANGED <<users, movies, tags, collections, reviews, favorites, inflight>>
       ELSE Reject("WatchlistAdd", a, cid, mref, "SERVER_ERROR", "IntegrityError")

\* WatchlistDetailView.delete
WatchlistRemove(a, cid, mid) ==
    /\ last.n < MaxReq
    /\ IF ~IsAuthenticated(a)
       THEN Reject("WatchlistRemove", a, cid, mid, "UNAUTHORIZED", "not authenticated")
       ELSE IF WatchlistRows(cid, mid) = {}
       THEN Reject("WatchlistRemove", a, cid, mid, "NOT_FOUND", "movie not found in collection")
       ELSE IF Cardinality(WatchlistRows(cid, mid)) > 1
       THEN Reject("WatchlistRemove", a, cid, mid, "SERVER_ERROR", "MultipleObjectsReturned")
       ELSE /\ watchlist' = watchlist \ WatchlistRows(cid, mid)
            /\ Respond("WatchlistRemove", a, cid, mid, "NO_CONTENT", "removed from collection")
            /\ UNCHANGED <<users, movies, tags, collections, reviews, favorites, seq,
                           inflight>>

\* ------------------------------------------------------------------ MovieReview
\* The body of a review POST: the user it names (or none) and whether the rest is valid.
ReviewBodies == [user : {Missing} \cup UserIds, wellformed : BOOLEAN]

\* MovieReview.objects.filter(movie_id=..., user=...)
ReviewRows(mid, uid) == {r \in reviews : r.movie_id = mid /\ r.user = uid}

\* The MovieReview table without its uniqueness constraint.
ReviewAccepts_NoUnique(mid, uid) == Exists(movies, mid) /\ Exists(users, uid)

\* The MovieReview table's constraints: the movie and the user exist and the pair
\* (movie_id, user_id) is unique.
ReviewAccepts(mid, uid) ==
    /\ Exists(movies, mid)
    /\ Exists(users, uid)
    /\ ReviewRows(mid, uid) = {}

\* The duplicate check left out.
ReviewPostExists_Skipped(mid, uid) == FALSE

\* The duplicate check of MovieReviewListView.post.
ReviewPostExists(mid, uid) == ReviewRows(mid, uid) # {}

\* MovieReviewSerializer.is_valid(): the body is well formed and names an existing user.
ReviewBodyValid(body) == body.wellformed /\ Exists(users, body.user)

\* MovieReviewListView.post
ReviewRespond(a, mid, body, st, msg) ==
    RespondBody("ReviewPost", a, mid, body.user, body.wellformed, st, msg)

ReviewPost(a, mid, body) ==
    /\ last.n < MaxReq
    /\ ReviewBodyValid(body) /\ ReviewAccepts(mid, body.user) => seq.review < MaxIds
    /\ IF ~IsAuthenticated(a)
       THEN ReviewRespond(a, mid, body, "UNAUTHORIZED", "not authenticated")
            /\ UNCHANGED <<store, inflight>>
       ELSE IF ~Exists(movies, mid)
       THEN ReviewRespond(a, mid, body, "NOT_FOUND", "not found")
            /\ UNCHANGED <<store, inflight>>
       ELSE IF body.user = Missing
       THEN ReviewRespond(a, mid, body, "BAD_REQUEST", "user is required")
            /\ UNCHANGED <<store, inflight>>
       ELSE IF ReviewPostExists(mid, body.user)
       THEN ReviewRespond(a, mid, body, "BAD_REQUEST", "already reviewed")
            /\ UNCHANGED <<store, inflight>>
       ELSE IF ReviewBodyValid(body) /\ ~ReviewAccepts(mid, body.user)
       THEN ReviewRespond(a, mid, body, "SERVER_ERROR", "IntegrityError")
            /\ UNCHANGED <<store, inflight>>
       ELSE IF ReviewBodyValid(body)
       THEN /\ reviews' = reviews \cup
                  {[id |-> seq.review + 1, movie_id |-> mid, user |-> body.user]}
            /\ seq' = [seq EXCEPT !.review = @ + 1]
            /\ ReviewRespond(a, mid, body, "CREATED", "review")
            /\ UNCHANGED <<users, movies, tags, collections, watchlist, favorites, inflight>>
       ELSE ReviewRespond(a, mid, body, "BAD_REQUEST", "serializer errors")
            /\ UNCHANGED <<store, inflight>>

\* ------------------------------------------------------------------ Favorite
\* Favorite.objects.filter(user=..., collection=...)
FavoriteRows(uid, cid) == {f \in favorites : f.user = uid /\ f.collection = cid}

\* The Favorite table's constraints: the collection exists and the pair
\* (user_id, collection_id) is unique.
FavoriteUnique(uid, cid) == FavoriteRows(uid, cid) = {}

FavoriteAccepts(uid, cid) ==
    /\ Exists(collections, cid)
    /\ Exists(users, uid)
    /\ FavoriteUnique(uid, cid)

\* FavoriteListView.post, up to the permission test: "pass" or the error status.
FavoritePostBegin(a, cref) ==
    IF ~IsAuthenticated(a) THEN <<"UNAUTHORIZED", "not authenticated">>
    ELSE IF cref = Missing THEN <<"BAD_REQUEST", "collection id is required">>
    ELSE IF ~Exists(collections, cref) THEN <<"NOT_FOUND", "not found">>
    ELSE IF ~CanView(a, Row(collections, cref))
         THEN <<"FORBIDDEN", "cannot favorite private collection">>
    ELSE <<"pass", "none">>

\* The `created` flag ignored.
FavoritePostResponse_AlwaysCreated(created) == <<"CREATED", "added to favorites">>

\* The response of FavoriteListView.post from get_or_create's `created` flag.
FavoritePostResponse(created) ==
    IF created THEN <<"CREATED", "added to favorites">>
    ELSE <<"OK", "already in favorites">>

\* FavoriteListView.post; get_or_create runs uninterrupted when requests are served
\* one at a time.
FavoritePost(a, cref) ==
    /\ last.n < MaxReq
    /\ FavoritePostBegin(a, cref)[1] = "pass" /\ FavoriteAccepts(a, cref)
          => seq.favorite < MaxIds
    /\ IF FavoritePostBegin(a, cref)[1] # "pass"
       THEN Reject("FavoritePost", a, cref, 0,
                   FavoritePostBegin(a, cref)[1], FavoritePostBegin(a, cref)[2])
       ELSE IF Cardinality(FavoriteRows(a, cref)) > 1
       THEN Reject("FavoritePost", a, cref, 0, "SERVER_ERROR", "MultipleObjectsReturned")
       ELSE IF FavoriteRows(a, cref) # {}
       THEN Reject("FavoritePost", a, cref, 0,
                   FavoritePostResponse(FALSE)[1], FavoritePostResponse(FALSE)[2])
       ELSE IF FavoriteAccepts(a, cref)
       THEN /\ favorites' = favorites \cup
                  {[id |-> seq.favorite + 1, user |-> a, collection |-> cref]}
            /\ seq' = [seq EXCEPT !.favorite = @ + 1]
            /\ Respond("FavoritePost", a, cref, 0,
                       FavoritePostResponse(TRUE)[1], FavoritePostResponse(TRUE)[2])
            /\ UNCHANGED <<users, movies, tags, collections, watchlist, reviews, inflight>>
       ELSE Reject("FavoritePost", a, cref, 0, "SERVER_ERROR", "IntegrityError")

\* The lookup by collection alone.
FavoriteOf_AnyUser(a, cid) == {f \in favorites : f.collection = cid}

\* get_object_or_404(Favorite, user=user, collection__id=collection_id)
FavoriteOf(a, cid) == FavoriteRows(a, cid)

\* FavoriteDetailView.delete
FavoriteDelete(a, cid) ==
    /\ last.n < MaxReq
    /\ IF ~IsAuthenticated(a)
       THEN Reject("FavoriteDelete", a, cid, 0, "UNAUTHORIZED", "not authenticated")
       ELSE IF FavoriteOf(a, cid) = {}
       THEN Reject("FavoriteDelete", a, cid, 0, "NOT_FOUND", "not found")
       ELSE IF Cardinality(FavoriteOf(a, cid)) > 1
       THEN Reject("FavoriteDelete", a, cid, 0, "SERVER_ERROR", "MultipleObjectsReturned")
       ELSE /\ favorites' = favorites \ FavoriteOf(a, cid)
            /\ Respond("FavoriteDelete", a, cid, 0, "NO_CONTENT", "favorite removed")
            /\ UNCHANGED <<users, movies, tags, collections, watchlist, reviews, seq,
                           inflight>>

\* ------------------------------------------------------------------ Registration
\* request.data.get(key, ""): the default stands in for an absent key only.
GetField(f) == IF f.kind = "absent" THEN Field("str", <<>>) ELSE f

\* validate_password(password): the external credential-strength policy.
ValidatePassword(p) == p \notin WeakPasswords

\* The username check left out.
UsernameExists_Skipped(name) == FALSE

\* User.objects.filter(username=...).exists()
UsernameExists(name) == \E u \in users : u.username = name

\* The User table's constraint: username is unique.
UserAccepts(name) == \A u \in users : u.username # name

\* SignUpView.post, up to the password policy: "pass" or the error status.
SignUpBegin(u, e, p) ==
    IF "null" \in {GetField(u).kind, GetField(e).kind, GetField(p).kind}
    THEN <<"SERVER_ERROR", "AttributeError">>
    ELSE IF \E f \in {u, e, p} : Strip(GetField(f).s) = <<>>
    THEN <<"BAD_REQUEST", "all fields are required">>
    ELSE IF ~ValidatePassword(Strip(GetField(p).s))
    THEN <<"BAD_REQUEST", "password policy">>
    ELSE <<"pass", "none">>

\* The username SignUpView.post works with.
SignUpName(u) == IF GetField(u).kind = "str" THEN Strip(GetField(u).s) ELSE <<>>

\* SignUpView.post (AllowAny); x is the id of the created user.
SignUpRespond(a, x, u, e, p, st, msg) ==
    last' = [n |-> last.n + 1,
             req |-> Request("SignUp", a, x, 0, TRUE, <<u, e, p>>, SignUpName(u), st, msg)]

SignUp(a, u, e, p) ==
    /\ last.n < MaxReq
    /\ SignUpBegin(u, e, p)[1] = "pass" /\ UserAccepts(SignUpName(u)) => seq.user < MaxUsers
    /\ IF SignUpBegin(u, e, p)[1] # "pass"
       THEN /\ SignUpRespond(a, 0, u, e, p, SignUpBegin(u, e, p)[1], SignUpBegin(u, e, p)[2])
            /\ UNCHANGED <<store, inflight>>
       ELSE IF UsernameExists(SignUpName(u))
       THEN /\ SignUpRespond(a, 0, u, e, p, "BAD_REQUEST", "username already exists")
            /\ UNCHANGED <<store, inflight>>
       ELSE IF UserAccepts(SignUpName(u))
       THEN /\ users' = users \cup {[id |-> seq.user + 1, username |-> SignUpName(u)]}
            /\ seq' = [seq EXCEPT !.user = @ + 1]
            /\ SignUpRespond(a, seq.user + 1, u, e, p, "CREATED", "token pair")
            /\ UNCHANGED <<movies, tags, collections, watchlist, reviews, favorites,
                           inflight>>
       ELSE /\ SignUpRespond(a, 0, u, e, p, "SERVER_ERROR", "IntegrityError")
            /\ UNCHANGED <<store, inflight>>

\* ------------------------------------------------------------------ reads
\* MovieListView.get
MovieList(a, mine) ==
    /\ last.n < MaxReq
    /\ IF ~IsAuthenticated(a)
       THEN Deny("MovieList", a, 0, 0, "UNAUTHORIZED", "not authenticated")
       ELSE Serve("MovieList", a, 0, 0, "movie",
                  IF mine THEN {m \in movies : m.added_by = a} ELSE movies)

\* MovieDetailView.get
MovieGet(a, pk) ==
    /\ last.n < MaxReq
    /\ IF ~IsAuthenticated(a)
       THEN Deny("MovieGet", a, pk, 0, "UNAUTHORIZED", "not authenticated")
       ELSE IF ~Exists(movies, pk)
       THEN Deny("MovieGet", a, pk, 0, "NOT_FOUND", "not found")
       ELSE Serve("MovieGet", a, pk, 0, "movie", {Row(movies, pk)})

\* TagListView.get (AllowAny)
TagList(a) ==
    /\ last.n < MaxReq
    /\ Serve("TagList", a, 0, 0, "tag", tags)

\* TagDetailView.get
TagGet(a, pk) ==
    /\ last.n < MaxReq
    /\ IF ~IsAuthenticated(a)
       THEN Deny("TagGet", a, pk, 0, "UNAUTHORIZED", "not authenticated")
       ELSE IF ~Exists(tags, pk)
       THEN Deny("TagGet", a, pk, 0, "NOT_FOUND", "not found")
       ELSE Serve("TagGet", a, pk, 0, "tag", {Row(tags, pk)})

\* TagDetailView.patch: a Tag row carries its id only, so the new label leaves the
\* modelled row as it is.
TagPatch(a, pk, valid) ==
    /\ last.n < MaxReq
    /\ IF ~IsAuthenticated(a)
       THEN Deny("TagPatch", a, pk, 0, "UNAUTHORIZED", "not authenticated")
       ELSE IF ~Exists(tags, pk)
       THEN Deny("TagPatch", a, pk, 0, "NOT_FOUND", "not found")
       ELSE IF valid
       THEN Serve("TagPatch", a, pk, 0, "tag", {Row(tags, pk)})
       ELSE Deny("TagPatch", a, pk, 0, "BAD_REQUEST", "serializer errors")

\* CollectionListView.get
CollectionList(a) ==
    /\ last.n < MaxReq
    /\ IF ~IsAuthenticated(a)
       THEN Deny("CollectionList", a, 0, 0, "UNAUTHORIZED", "not authenticated")
       ELSE Serve("CollectionList", a, 0, 0, "collection",
                  {c \in collections : c.user = a})

\* PublicCollectionListView.get
PublicCollectionList(a) ==
    /\ last.n < MaxReq
    /\ IF ~IsAuthenticated(a)
       THEN Deny("PublicCollectionList", a, 0, 0, "UNAUTHORIZED", "not authenticated")
       ELSE Serve("PublicCollectionList", a, 0, 0, "collection",
                  {c \in collections : c.is_public})

\* GenreListView.get: the Genre table is a fixed reference list, left out of the store.
GenreList(a) ==
    /\ last.n < MaxReq
    /\ IF ~IsAuthenticated(a)
       THEN Deny("GenreList", a, 0, 0, "UNAUTHORIZED", "not authenticated")
       ELSE Serve("GenreList", a, 0, 0, "genre", {})

\* WatchlistView.get
WatchlistList(a) ==
    /\ last.n < MaxReq
    /\ IF ~IsAuthenticated(a)
       THEN Deny("WatchlistList", a, 0, 0, "UNAUTHORIZED", "not authenticated")
       ELSE Serve("WatchlistList", a, 0, 0, "watchlist", watchlist)

\* WatchlistByCollectionView.get
WatchlistByCollection(a, cid) ==
    /\ last.n < MaxReq
    /\ IF ~IsAuthenticated(a)
       THEN Deny("WatchlistByCollection", a, cid, 0, "UNAUTHORIZED", "not authenticated")
       ELSE Serve("WatchlistByCollection", a, cid, 0, "watchlist",
                  {w \in watchlist : w.collection_id = cid})

\* WatchlistDetailView.get
WatchlistGet(a, cid, mid) ==
    /\ last.n < MaxReq
    /\ IF ~IsAuthenticated(a)
       THEN Deny("WatchlistGet", a, cid, mid, "UNAUTHORIZED", "not authenticated")
       ELSE IF WatchlistRows(cid, mid) = {}
       THEN Deny("WatchlistGet", a, cid, mid, "NOT_FOUND", "not found")
       ELSE IF Cardinality(WatchlistRows(cid, mid)) > 1
       THEN Deny("WatchlistGet", a, cid, mid, "SERVER_ERROR", "MultipleObjectsReturned")
       ELSE Serve("WatchlistGet", a, cid, mid, "watchlist", WatchlistRows(cid, mid))

\* WatchlistMovieStatusView.get: the row by id, of a collection of the actor.
WatchlistMovieStatus(a, wid, mid) ==
    LET found == {w \in watchlist :
                     /\ w.id = wid
                     /\ w.movie_id = mid
                     /\ \E c \in collections : c.id = w.collection_id /\ c.user = a}
    IN  /\ last.n < MaxReq
        /\ IF ~IsAuthenticated(a)
           THEN Deny("WatchlistMovieStatus", a, wid, mid, "UNAUTHORIZED",
                       "not authenticated")
           ELSE IF found = {}
           THEN Deny("WatchlistMovieStatus", a, wid, mid, "NOT_FOUND", "not found")
           ELSE Serve("WatchlistMovieStatus", a, wid, mid, "watchlist", found)

\* MovieReviewListView.get
ReviewList(a, mid) ==
    /\ last.n < MaxReq
    /\ IF ~IsAuthenticated(a)
       THEN Deny("ReviewList", a, mid, 0, "UNAUTHORIZED", "not authenticated")
       ELSE IF ~Exists(movies, mid)
       THEN Deny("ReviewList", a, mid, 0, "NOT_FOUND", "not found")
       ELSE Serve("ReviewList", a, mid, 0, "review", {r \in reviews : r.movie_id = mid})

\* get_object_or_404(MovieReview, id=review_id, movie_id=movie_id)
ReviewOf(mid, rid) == {r \in reviews : r.id = rid /\ r.movie_id = mid}

\* MovieReviewDetailView.get
ReviewGet(a, mid, rid) ==
    /\ last.n < MaxReq
    /\ IF ~IsAuthenticated(a)
       THEN Deny("ReviewGet", a, mid, rid, "UNAUTHORIZED", "not authenticated")
       ELSE IF ReviewOf(mid, rid) = {}
       THEN Deny("ReviewGet", a, mid, rid, "NOT_FOUND", "not found")
       ELSE Serve("ReviewGet", a, mid, rid, "review", ReviewOf(mid, rid))

\* The body of a review PATCH: the user it moves the review to (or none), or a
\* malformed body.
ReviewPatchBodies == [user : {Missing} \cup UserIds, wellformed : {TRUE}]
                     \cup {[user |-> Missing, wellformed |-> FALSE]}

\* MovieReviewSerializer.is_valid() of a partial update: a supplied user must exist.
ReviewPatchValid(body) ==
    body.wellformed /\ (body.user = Missing \/ Exists(users, body.user))

\* MovieReviewDetailView.patch: supplied fields replace; a user moved onto a pair
\* that is taken is refused by the table.
ReviewPatch(a, mid, rid, body) ==
    LET r == CHOOSE r \in ReviewOf(mid, rid) : TRUE
        moved == body.user # Missing /\ body.user # r.user
    IN  /\ last.n < MaxReq
        /\ IF ~IsAuthenticated(a)
           THEN Reject("ReviewPatch", a, mid, rid, "UNAUTHORIZED", "not authenticated")
           ELSE IF ReviewOf(mid, rid) = {}
           THEN Reject("ReviewPatch", a, mid, rid, "NOT_FOUND", "not found")
           ELSE IF ~ReviewPatchValid(body)
           THEN Reject("ReviewPatch", a, mid, rid, "BAD_REQUEST", "serializer errors")
           ELSE IF moved /\ ~ReviewAccepts(mid, body.user)
           THEN Reject("ReviewPatch", a, mid, rid, "SERVER_ERROR", "IntegrityError")
           ELSE /\ reviews' = (reviews \ {r}) \cup
                      {[r EXCEPT !.user = IF moved THEN body.user ELSE @]}
                /\ Respond("ReviewPatch", a, mid, rid, "OK", "review")
                /\ UNCHANGED <<users, movies, tags, collections, watchlist, favorites,
                               seq, inflight>>

\* MovieReviewDetailView.delete
ReviewDelete(a, mid, rid) ==
    /\ last.n < MaxReq
    /\ IF ~IsAuthenticated(a)
       THEN Reject("ReviewDelete", a, mid, rid, "UNAUTHORIZED", "not authenticated")
       ELSE IF ReviewOf(mid, rid) = {}
       THEN Reject("ReviewDelete", a, mid, rid, "NOT_FOUND", "not found")
       ELSE /\ reviews' = reviews \ ReviewOf(mid, rid)
            /\ Respond("ReviewDelete", a, mid, rid, "NO_CONTENT", "none")
            /\ UNCHANGED <<users, movies, tags, collections, watchlist, favorites,
                           seq, inflight>>

\* FavoriteListView.get
FavoriteList(a) ==
    /\ last.n < MaxReq
    /\ IF ~IsAuthenticated(a)
       THEN Deny("FavoriteList", a, 0, 0, "UNAUTHORIZED", "not authenticated")
       ELSE Serve("FavoriteList", a, 0, 0, "favorite", {f \in favorites : f.user = a})

\* FavoriteDetailView.get
FavoriteGet(a, cid) ==
    /\ last.n < MaxReq
    /\ IF ~IsAuthenticated(a)
       THEN Deny("FavoriteGet", a, cid, 0, "UNAUTHORIZED", "not authenticated")
       ELSE IF FavoriteOf(a, cid) = {}
       THEN Deny("FavoriteGet", a, cid, 0, "NOT_FOUND", "not found")
       ELSE IF Cardinality(FavoriteOf(a, cid)) > 1
       THEN Deny("FavoriteGet", a, cid, 0, "SERVER_ERROR", "MultipleObjectsReturned")
       ELSE Serve("FavoriteGet", a, cid, 0, "favorite", FavoriteOf(a, cid))

Next ==
    \/ \E a \in Actors, t \in Titles, v \in BOOLEAN : MoviePost(a, t, v)
    \/ \E a \in Actors, pk \in MovieIds, t \in Titles, v \in BOOLEAN : MoviePatch(a, pk, t, v)
    \/ \E a \in Actors, pk \in MovieIds : MovieDelete(a, pk)
    \/ \E a \in Actors, v \in BOOLEAN : TagPost(a, v)
    \/ \E a \in Actors, pk \in TagIds : TagDelete(a, pk)
    \/ \E a \in Actors, b \in CollBodies : CollectionPost(a, b)
    \/ \E a \in Actors, pk \in CollIds : CollectionGet(a, pk)
    \/ \E a \in Actors, pk \in CollIds, b \in CollBodies : CollectionPatch(a, pk, b)
    \/ \E a \in Actors, pk \in CollIds : CollectionDelete(a, pk)
    \/ \E a \in Actors, cid \in CollIds, m \in {Missing} \cup MovieIds : WatchlistAdd(a, cid, m)
    \/ \E a \in Actors, cid \in CollIds, m \in MovieIds : WatchlistRemove(a, cid, m)
    \/ \E a \in Actors, m \in MovieIds, b \in ReviewBodies : ReviewPost(a, m, b)
    \/ \E a \in Actors, c \in {Missing} \cup CollIds : FavoritePost(a, c)
    \/ \E a \in Actors, c \in CollIds : FavoriteDelete(a, c)
    \/ \E a \in Actors, u \in UsernameFields, e \in EmailFields, p \in PasswordFields :
          SignUp(a, u, e, p)
    \/ \E a \in Actors, mine \in BOOLEAN : MovieList(a, mine)
    \/ \E a \in Actors, pk \in MovieIds : MovieGet(a, pk)
    \/ \E a \in Actors : TagList(a)
    \/ \E a \in Actors, pk \in TagIds : TagGet(a, pk)
    \/ \E a \in Actors, pk \in TagIds, v \in BOOLEAN : TagPatch(a, pk, v)
    \/ \E a \in Actors : CollectionList(a)
    \/ \E a \in Actors : PublicCollectionList(a)
    \/ \E a \in Actors : GenreList(a)
    \/ \E a \in Actors : WatchlistList(a)
    \/ \E a \in Actors, cid \in CollIds : WatchlistByCollection(a, cid)
    \/ \E a \in Actors, cid \in CollIds, m \in MovieIds : WatchlistGet(a, cid, m)
    \/ \E a \in Actors, w \in 1..MaxIds, m \in MovieIds : WatchlistMovieStatus(a, w, m)
    \/ \E a \in Actors, m \in MovieIds : ReviewList(a, m)
    \/ \E a \in Actors, m \in MovieIds, r \in 1..MaxIds : ReviewGet(a, m, r)
    \/ \E a \in Actors, m \in MovieIds, r \in 1..MaxIds, body \in ReviewPatchBodies :
          ReviewPatch(a, m, r, body)
    \/ \E a \in Actors, m \in MovieIds, r \in 1..MaxIds : ReviewDelete(a, m, r)
    \/ \E a \in Actors : FavoriteList(a)
    \/ \E a \in Actors, c \in CollIds : FavoriteGet(a, c)

\* ------------------------------------------------------------------ interleaved requests
\* Under ConcSpec two workers serve one request each; a handler yields to the other
\* worker between two store operations.
Slots == {"w1", "w2"}

\* A slot is at pc; once done, via is the step that produced the response.
Proceed(s, pc, op, a, x, y, fields, name) ==
    inflight' = [inflight EXCEPT ![s] =
                    [pc |-> pc, via |-> "idle",
                     req |-> Request(op, a, x, y, TRUE, fields, name, "NONE", "none")]]

Finish(s, st, msg) ==
    inflight' = [inflight EXCEPT ![s] =
                    [pc |-> "done", via |-> @.pc,
                     req |-> [@.req EXCEPT !.status = st, !.msg = msg]]]

At(s, op, pc) == inflight[s].req.op = op /\ inflight[s].pc = pc

\* WatchlistByCollectionView.post: body check and get_object_or_404(Movie)
WlBegin(s, a, cid, mref) ==
    /\ inflight[s].pc = "idle"
    /\ IF WatchlistAddBegin(a, mref)[1] # "pass"
       THEN inflight' = [inflight EXCEPT ![s] =
               [pc |-> "done", via |-> "begin", req |-> Request("WatchlistAdd", a, cid, mref, TRUE, NoFields, <<>>,
                    WatchlistAddBegin(a, mref)[1], WatchlistAddBegin(a, mref)[2])]]
       ELSE Proceed(s, "exists", "WatchlistAdd", a, cid, mref, NoFields, <<>>)
    /\ UNCHANGED <<store, last>>

\* WatchlistByCollectionView.post: the filter(...).exists() check
WlExists(s) ==
    /\ At(s, "WatchlistAdd", "exists")
    /\ IF WatchlistAddExists(inflight[s].req.x, inflight[s].req.y)
       THEN Finish(s, "BAD_REQUEST", "already in collection")
       ELSE inflight' = [inflight EXCEPT ![s].pc = "create"]
    /\ UNCHANGED <<store, last>>

\* WatchlistByCollectionView.post: Watchlist.objects.create(...) and the response
WlCreate(s) ==
    LET r == inflight[s].req IN
    /\ At(s, "WatchlistAdd", "create")
    /\ IF WatchlistAccepts(r.x, r.y)
       THEN /\ watchlist' = watchlist \cup
                  {[id |-> seq.watchlist + 1, collection_id |-> r.x, movie_id |-> r.y]}
            /\ seq' = [seq EXCEPT !.watchlist = @ + 1]
            /\ Finish(s, "CREATED", "watchlist")
            /\ UNCHANGED <<users, movies, tags, collections, reviews, favorites, last>>
       ELSE /\ Finish(s, "SERVER_ERROR", "IntegrityError")
            /\ UNCHANGED <<store, last>>

\* FavoriteListView.post: body check, get_object_or_404(Collection), permission test
FavBegin(s, a, cref) ==
    /\ inflight[s].pc = "idle"
    /\ IF FavoritePostBegin(a, cref)[1] # "pass"
       THEN inflight' = [inflight EXCEPT ![s] =
               [pc |-> "done", via |-> "begin", req |-> Request("FavoritePost", a, cref, 0, TRUE, NoFields, <<>>,
                    FavoritePostBegin(a, cref)[1], FavoritePostBegin(a, cref)[2])]]
       ELSE Proceed(s, "get", "FavoritePost", a, cref, 0, NoFields, <<>>)
    /\ UNCHANGED <<store, last>>

\* get_or_create: the lookup
FavGet(s) ==
    LET r == inflight[s].req IN
    /\ At(s, "FavoritePost", "get")
    /\ IF Cardinality(FavoriteRows(r.actor, r.x)) > 1
       THEN Finish(s, "SERVER_ERROR", "MultipleObjectsReturned")
       ELSE IF FavoriteRows(r.actor, r.x) # {}
       THEN Finish(s, FavoritePostResponse(FALSE)[1], FavoritePostResponse(FALSE)[2])
       ELSE inflight' = [inflight EXCEPT ![s].pc = "create"]
    /\ UNCHANGED <<store, last>>

\* get_or_create: the insert after a failed lookup; an IntegrityError sends it to a
\* second lookup
FavCreate(s) ==
    LET r == inflight[s].req IN
    /\ At(s, "FavoritePost", "create")
    /\ IF FavoriteAccepts(r.actor, r.x)
       THEN /\ favorites' = favorites \cup
                  {[id |-> seq.favorite + 1, user |-> r.actor, collection |-> r.x]}
            /\ seq' = [seq EXCEPT !.favorite = @ + 1]
            /\ Finish(s, FavoritePostResponse(TRUE)[1], FavoritePostResponse(TRUE)[2])
            /\ UNCHANGED <<users, movies, tags, collections, watchlist, reviews, last>>
       ELSE /\ inflight' = [inflight EXCEPT ![s].pc = "reget"]
            /\ UNCHANGED <<store, last>>

\* get_or_create: the lookup after an IntegrityError; the error is raised again when
\* the row is still not there
FavReget(s) ==
    LET r == inflight[s].req IN
    /\ At(s, "FavoritePost", "reget")
    /\ IF Cardinality(FavoriteRows(r.actor, r.x)) = 1
       THEN Finish(s, FavoritePostResponse(FALSE)[1], FavoritePostResponse(FALSE)[2])
       ELSE Finish(s, "SERVER_ERROR", "IntegrityError")
    /\ UNCHANGED <<store, last>>

\* SignUpView.post: the field checks and validate_password
SuBegin(s, a, u, e, p) ==
    /\ inflight[s].pc = "idle"
    /\ IF SignUpBegin(u, e, p)[1] # "pass"
       THEN inflight' = [inflight EXCEPT ![s] =
               [pc |-> "done", via |-> "begin", req |-> Request("SignUp", a, 0, 0, TRUE, <<u, e, p>>, SignUpName(u),
                    SignUpBegin(u, e, p)[1], SignUpBegin(u, e, p)[2])]]
       ELSE Proceed(s, "exists", "SignUp", a, 0, 0, <<u, e, p>>, SignUpName(u))
    /\ UNCHANGED <<store, last>>

\* SignUpView.post: the filter(username=...).exists() check
SuExists(s) ==
    /\ At(s, "SignUp", "exists")
    /\ IF UsernameExists(inflight[s].req.name)
       THEN Finish(s, "BAD_REQUEST", "username already exists")
       ELSE inflight' = [inflight EXCEPT ![s].pc = "create"]
    /\ UNCHANGED <<store, last>>

\* SignUpView.post: User.objects.create_user(...), the tokens and the response
SuCreate(s) ==
    LET r == inflight[s].req IN
    /\ At(s, "SignUp", "create")
    /\ IF UserAccepts(r.name)
       THEN /\ users' = users \cup {[id |-> seq.user + 1, username |-> r.name]}
            /\ seq' = [seq EXCEPT !.user = @ + 1]
            /\ inflight' = [inflight EXCEPT ![s] =
                  [pc |-> "done", via |-> "create",
                   req |-> [r EXCEPT !.x = seq.user + 1,
                                    !.status = "CREATED",
                                    !.msg = "token pair"]]]
            /\ UNCHANGED <<movies, tags, collections, watchlist, reviews, favorites, last>>
       ELSE /\ Finish(s, "SERVER_ERROR", "IntegrityError")
            /\ UNCHANGED <<store, last>>

\* A request that ends at its first step.
Refuse(s, op, a, x, y, st, msg) ==
    inflight' = [inflight EXCEPT ![s] =
                    [pc |-> "done", via |-> "begin",
                     req |-> Request(op, a, x, y, TRUE, NoFields, <<>>, st, msg)]]

\* TagDetailView.delete: get_object_or_404(Tag)
TdBegin(s, a, pk) ==
    /\ inflight[s].pc = "idle"
    /\ IF ~IsAuthenticated(a)
       THEN Refuse(s, "TagDelete", a, pk, 0, "UNAUTHORIZED", "not authenticated")
       ELSE IF ~Exists(tags, pk)
       THEN Refuse(s, "TagDelete", a, pk, 0, "NOT_FOUND", "not found")
       ELSE Proceed(s, "clear", "TagDelete", a, pk, 0, NoFields, <<>>)
    /\ UNCHANGED <<store, last>>

\* TagDetailView.delete: tag.collections.clear(), a write of its own; data keeps the
\* collections it detached.
TdClear(s) ==
    LET r == inflight[s].req IN
    /\ At(s, "TagDelete", "clear")
    /\ collections' = Detach(r.x)
    /\ inflight' = [inflight EXCEPT
          ![s].pc = "delete",
          ![s].req.data = {<<"collection", c.id>> : c \in {d \in collections : r.x \in d.tags}}]
    /\ UNCHANGED <<users, movies, tags, watchlist, reviews, favorites, seq, last>>

\* TagDetailView.delete: tag.delete() (the row and the join rows it still has) and
\* the response
TdDelete(s) ==
    LET r == inflight[s].req IN
    /\ At(s, "TagDelete", "delete")
    /\ tags' = {t \in tags : t.id # r.x}
    /\ collections' = Detach(r.x)
    /\ Finish(s, "NO_CONTENT", "none")
    /\ UNCHANGED <<users, movies, watchlist, reviews, favorites, seq, last>>

\* MovieReviewListView.post: get_object_or_404(Movie) and the user check
RvBegin(s, a, mid, body) ==
    /\ inflight[s].pc = "idle"
    /\ IF ~IsAuthenticated(a)
       THEN Refuse(s, "ReviewPost", a, mid, body.user, "UNAUTHORIZED", "not authenticated")
       ELSE IF ~Exists(movies, mid)
       THEN Refuse(s, "ReviewPost", a, mid, body.user, "NOT_FOUND", "not found")
       ELSE IF body.user = Missing
       THEN Refuse(s, "ReviewPost", a, mid, body.user, "BAD_REQUEST", "user is required")
       ELSE inflight' = [inflight EXCEPT ![s] =
               [pc |-> "exists", via |-> "idle",
                req |-> Request("ReviewPost", a, mid, body.user, body.wellformed,
                                NoFields, <<>>, "NONE", "none")]]
    /\ UNCHANGED <<store, last>>

\* MovieReviewListView.post: the filter(...).exists() check
RvExists(s) ==
    LET r == inflight[s].req IN
    /\ At(s, "ReviewPost", "exists")
    /\ IF ReviewPostExists(r.x, r.y)
       THEN Finish(s, "BAD_REQUEST", "already reviewed")
       ELSE inflight' = [inflight EXCEPT ![s].pc = "save"]
    /\ UNCHANGED <<store, last>>

\* MovieReviewListView.post: is_valid(), save(movie=movie) and the response
RvSave(s) ==
    LET r == inflight[s].req
        body == [user |-> r.y, wellformed |-> r.wellformed]
    IN  /\ At(s, "ReviewPost", "save")
        /\ IF ~ReviewBodyValid(body)
           THEN Finish(s, "BAD_REQUEST", "serializer errors") /\ UNCHANGED <<store, last>>
           ELSE IF ~ReviewAccepts(r.x, r.y)
           THEN Finish(s, "SERVER_ERROR", "IntegrityError") /\ UNCHANGED <<store, last>>
           ELSE /\ reviews' = reviews \cup
                      {[id |-> seq.review + 1, movie_id |-> r.x, user |-> r.y]}
                /\ seq' = [seq EXCEPT !.review = @ + 1]
                /\ Finish(s, "CREATED", "review")
                /\ UNCHANGED <<users, movies, tags, collections, watchlist, favorites,
                               last>>

\* MovieReviewDetailView.patch: get_object_or_404(MovieReview) and is_valid(); data
\* keeps the user of the instance as the serializer will save it.
RpBegin(s, a, mid, rid, body) ==
    LET r == CHOOSE r \in ReviewOf(mid, rid) : TRUE IN
    /\ inflight[s].pc = "idle"
    /\ IF ~IsAuthenticated(a)
       THEN Refuse(s, "ReviewPatch", a, mid, rid, "UNAUTHORIZED", "not authenticated")
       ELSE IF ReviewOf(mid, rid) = {}
       THEN Refuse(s, "ReviewPatch", a, mid, rid, "NOT_FOUND", "not found")
       ELSE IF ~ReviewPatchValid(body)
       THEN Refuse(s, "ReviewPatch", a, mid, rid, "BAD_REQUEST", "serializer errors")
       ELSE inflight' = [inflight EXCEPT ![s] =
               [pc |-> "save", via |-> "idle",
                req |-> [Request("ReviewPatch", a, mid, rid, TRUE, NoFields, <<>>,
                                 "NONE", "none")
                            EXCEPT !.data = {<<"user", IF body.user = Missing
                                                       THEN r.user ELSE body.user>>}]]]
    /\ UNCHANGED <<store, last>>

\* MovieReviewDetailView.patch: serializer.save(), which is Model.save(): an UPDATE
\* of the row by id, and an INSERT when the row is gone.
RpSave(s) ==
    LET r == inflight[s].req
        u == CHOOSE u \in UserIds : <<"user", u>> \in r.data
        old == {x \in reviews : x.id = r.y}
        same == \E x \in old : x.movie_id = r.x /\ x.user = u
    IN  /\ At(s, "ReviewPatch", "save")
        /\ IF ~same /\ ~ReviewAccepts(r.x, u)
           THEN Finish(s, "SERVER_ERROR", "IntegrityError") /\ UNCHANGED <<store, last>>
           ELSE /\ reviews' = (reviews \ old) \cup
                                  {[id |-> r.y, movie_id |-> r.x, user |-> u]}
                /\ Finish(s, "OK", "review")
                /\ UNCHANGED <<users, movies, tags, collections, watchlist, favorites,
                               seq, last>>

\* MovieReviewDetailView.delete: get_object_or_404(MovieReview)
RdBegin(s, a, mid, rid) ==
    /\ inflight[s].pc = "idle"
    /\ IF ~IsAuthenticated(a)
       THEN Refuse(s, "ReviewDelete", a, mid, rid, "UNAUTHORIZED", "not authenticated")
       ELSE IF ReviewOf(mid, rid) = {}
       THEN Refuse(s, "ReviewDelete", a, mid, rid, "NOT_FOUND", "not found")
       ELSE Proceed(s, "delete", "ReviewDelete", a, mid, rid, NoFields, <<>>)
    /\ UNCHANGED <<store, last>>

\* MovieReviewDetailView.delete: review.delete() and the response
RdDelete(s) ==
    LET r == inflight[s].req IN
    /\ At(s, "ReviewDelete", "delete")
    /\ reviews' = {x \in reviews : x.id # r.y}
    /\ Finish(s, "NO_CONTENT", "none")
    /\ UNCHANGED <<users, movies, tags, collections, watchlist, favorites, seq, last>>

NextConc ==
    \/ \E s \in Slots, a \in Actors, cid \in CollIds, m \in {Missing} \cup MovieIds :
          WlBegin(s, a, cid, m)
    \/ \E s \in Slots : WlExists(s)
    \/ \E s \in Slots : WlCreate(s)
    \/ \E s \in Slots, a \in Actors, c \in {Missing} \cup CollIds : FavBegin(s, a, c)
    \/ \E s \in Slots : FavGet(s)
    \/ \E s \in Slots : FavCreate(s)
    \/ \E s \in Slots : FavReget(s)
    \/ \E s \in Slots, a \in Actors, u \in UsernameFields, e \in EmailFields,
          p \in PasswordFields : SuBegin(s, a, u, e, p)
    \/ \E s \in Slots : SuExists(s)
    \/ \E s \in Slots : SuCreate(s)
    \/ \E s \in Slots, a \in Actors, pk \in TagIds : TdBegin(s, a, pk)
    \/ \E s \in Slots : TdClear(s)
    \/ \E s \in Slots : TdDelete(s)
    \/ \E s \in Slots, a \in Actors, m \in MovieIds, body \in ReviewBodies :
          RvBegin(s, a, m, body)
    \/ \E s \in Slots : RvExists(s)
    \/ \E s \in Slots : RvSave(s)
    \/ \E s \in Slots, a \in Actors, m \in MovieIds, r \in 1..MaxIds,
          body \in ReviewPatchBodies : RpBegin(s, a, m, r, body)
    \/ \E s \in Slots : RpSave(s)
    \/ \E s \in Slots, a \in Actors, m \in MovieIds, r \in 1..MaxIds :
          RdBegin(s, a, m, r)
    \/ \E s \in Slots : RdDelete(s)

Spec == Init /\ [][Next]_vars

ConcSpec == Init /\ [][NextConc]_vars

SharedSpec == InitShared /\ [][Next]_vars

\* ================================================================== claims
\* C1: for every Movie m and authenticated actor a, a PATCH or DELETE of m succeeds
\* (answers OK / NO_CONTENT, or changes the Movie table) only if a = m.added_by; any
\* other actor gets FORBIDDEN, and m and the rest of the store stay as they were.
C1_MovieOwnerOnly ==
    [][\A m \in movies :
          (/\ last'.req.op \in {"MoviePatch", "MovieDelete"}
           /\ last'.req.x = m.id
           /\ last'.req.actor # Anon)
          => /\ (last'.req.status \in {"OK", "NO_CONTENT"} \/ movies' # movies)
                   => last'.req.actor = m.added_by
             /\ last'.req.actor # m.added_by
                   => /\ last'.req.status = "FORBIDDEN"
                      /\ m \in movies'
                      /\ UNCHANGED store]_vars

\* A non-owner's DELETE of an existing movie was answered FORBIDDEN.
C1_Witness ==
    /\ last.req.op = "MovieDelete"
    /\ last.req.status = "FORBIDDEN"
    /\ last.req.actor # Anon
    /\ \E m \in movies : m.id = last.req.x /\ m.added_by # last.req.actor

\* C2: a GET of an existing Collection c by an authenticated actor a answers OK when
\* a owns c or c.is_public, and FORBIDDEN when a is not the owner and c is private,
\* whatever earlier PATCHes did to is_public.
C2_CollectionRead ==
    (last.req.op = "CollectionGet" /\ last.req.actor # Anon)
    => \A c \in collections :
          c.id = last.req.x
          => last.req.status =
                IF c.user = last.req.actor \/ c.is_public THEN "OK" ELSE "FORBIDDEN"

\* A non-owner read a collection that its owner had made public.
C2_Witness ==
    /\ last.req.op = "CollectionGet"
    /\ last.req.status = "OK"
    /\ last.req.actor # Anon
    /\ \E c \in collections :
          c.id = last.req.x /\ c.user # last.req.actor /\ c.is_public

\* C3: a PATCH or DELETE of a Collection c takes effect only for c.user; any other
\* authenticated actor, also on a public c, gets FORBIDDEN and c and the rest of the
\* store stay as they were.
C3_CollectionOwnerOnly ==
    [][\A c \in collections :
          (/\ last'.req.op \in {"CollectionPatch", "CollectionDelete"}
           /\ last'.req.x = c.id
           /\ last'.req.actor # Anon)
          => /\ (last'.req.status \in {"OK", "NO_CONTENT"} \/ collections' # collections)
                   => last'.req.actor = c.user
             /\ last'.req.actor # c.user
                   => /\ last'.req.status = "FORBIDDEN"
                      /\ c \in collections'
                      /\ UNCHANGED store]_vars

\* A non-owner's DELETE of a public collection was answered FORBIDDEN.
C3_Witness ==
    /\ last.req.op = "CollectionDelete"
    /\ last.req.status = "FORBIDDEN"
    /\ last.req.actor # Anon
    /\ \E c \in collections :
          c.id = last.req.x /\ c.user # last.req.actor /\ c.is_public

\* No two Watchlist rows share a (collection, movie) pair.
C4_PairsUnique ==
    \A v, w \in watchlist :
        v.collection_id = w.collection_id /\ v.movie_id = w.movie_id => v = w

\* What a Watchlist add for an existing movie and collection answers and writes.
C4_AddStep ==
    \A c \in collections, m \in movies :
        (/\ last'.req.op = "WatchlistAdd"
         /\ last'.req.actor # Anon
         /\ last'.req.x = c.id
         /\ last'.req.y = m.id)
        => IF \E w \in watchlist : w.collection_id = c.id /\ w.movie_id = m.id
           THEN /\ last'.req.status = "BAD_REQUEST"
                /\ last'.req.msg = "already in collection"
                /\ UNCHANGED store
           ELSE /\ last'.req.status = "CREATED"
                /\ Cardinality({w \in watchlist' :
                        w.collection_id = c.id /\ w.movie_id = m.id}) = 1

\* C4: with requests served one after another, a Watchlist add for an existing movie M
\* and collection C answers CREATED and leaves exactly one (C, M) row when there was
\* none, answers BAD_REQUEST "already in collection" and changes nothing when there
\* was one, and the store never holds two rows for one (collection, movie) pair.
C4_WatchlistUnique == []C4_PairsUnique /\ [][C4_AddStep]_vars

\* The second of two adds of the same pair was refused, and the pair has its one row.
C4_Witness ==
    /\ last.req.op = "WatchlistAdd"
    /\ last.req.status = "BAD_REQUEST"
    /\ last.req.msg = "already in collection"
    /\ Cardinality(WatchlistRows(last.req.x, last.req.y)) = 1

\* C5: two concurrent Watchlist adds for the same existing (collection C, movie M),
\* starting with no (C, M) row, leave exactly one (C, M) row, and one of them answers
\* CREATED and the other BAD_REQUEST "already in collection".
C5_ConcurrentAdd ==
    \A s, t \in Slots :
        (/\ s # t
         /\ inflight[s].pc = "done" /\ inflight[t].pc = "done"
         /\ inflight[s].req.op = "WatchlistAdd" /\ inflight[t].req.op = "WatchlistAdd"
         /\ inflight[s].req.actor # Anon /\ inflight[t].req.actor # Anon
         /\ inflight[s].req.x = inflight[t].req.x
         /\ inflight[s].req.y = inflight[t].req.y
         /\ \E c \in collections : c.id = inflight[s].req.x
         /\ \E m \in movies : m.id = inflight[s].req.y)
        => /\ Cardinality({w \in watchlist : /\ w.collection_id = inflight[s].req.x
                                             /\ w.movie_id = inflight[s].req.y}) = 1
           /\ {inflight[s].req.status, inflight[t].req.status} = {"CREATED", "BAD_REQUEST"}
           /\ {inflight[s].req.msg, inflight[t].req.msg}
                 = {"watchlist", "already in collection"}

\* No two Favorite rows share a (user, collection) pair.
C6_PairsUnique ==
    \A f, g \in favorites : f.user = g.user /\ f.collection = g.collection => f = g

\* What a Favorite POST by a permitted actor answers and writes.
C6_PostStep ==
    \A c \in collections :
        (/\ last'.req.op = "FavoritePost"
         /\ last'.req.actor # Anon
         /\ last'.req.x = c.id
         /\ (c.user = last'.req.actor \/ c.is_public))
        => /\ IF \E f \in favorites : f.user = last'.req.actor /\ f.collection = c.id
              THEN /\ last'.req.status = "OK"
                   /\ last'.req.msg = "already in favorites"
                   /\ UNCHANGED store
              ELSE /\ last'.req.status = "CREATED"
                   /\ last'.req.msg = "added to favorites"
           /\ Cardinality({f \in favorites' :
                   f.user = last'.req.actor /\ f.collection = c.id}) = 1

\* C6: with requests served one after another, a Favorite POST by an actor u permitted
\* to favorite collection c answers CREATED "added to favorites" when u had no
\* Favorite for c, answers OK "already in favorites" and changes nothing when u had
\* one; afterwards (u, c) has exactly one row, and no state holds two rows for a pair.
C6_FavoriteIdempotent == []C6_PairsUnique /\ [][C6_PostStep]_vars

\* A repeated Favorite POST was answered OK "already in favorites".
C6_Witness ==
    /\ last.req.op = "FavoritePost"
    /\ last.req.status = "OK"
    /\ last.req.msg = "already in favorites"
    /\ Cardinality(FavoriteRows(last.req.actor, last.req.x)) = 1

\* C7: two concurrent Favorite POSTs by the same actor u for the same collection c
\* that u may favorite, starting with no (u, c) Favorite: neither answers an error,
\* exactly one (u, c) row exists once either has answered, and when both have
\* answered one said CREATED and the other OK "already in favorites".
C7_ConcurrentFavorite ==
    \A s \in Slots :
        (/\ inflight[s].pc = "done"
         /\ inflight[s].req.op = "FavoritePost"
         /\ inflight[s].req.actor # Anon
         /\ \E c \in collections :
               /\ c.id = inflight[s].req.x
               /\ (c.user = inflight[s].req.actor \/ c.is_public))
        => /\ <<inflight[s].req.status, inflight[s].req.msg>>
                 \in {<<"CREATED", "added to favorites">>, <<"OK", "already in favorites">>}
           /\ Cardinality({f \in favorites : /\ f.user = inflight[s].req.actor
                                             /\ f.collection = inflight[s].req.x}) = 1
           /\ \A t \in Slots \ {s} :
                 (/\ inflight[t].pc = "done"
                  /\ inflight[t].req.op = "FavoritePost"
                  /\ inflight[t].req.actor = inflight[s].req.actor
                  /\ inflight[t].req.x = inflight[s].req.x)
                 => {inflight[s].req.status, inflight[t].req.status} = {"CREATED", "OK"}

\* Both requests missed the row in their lookup; the store refused the second insert
\* and that request answered OK after its second lookup.
C7_Witness ==
    \E s, t \in Slots :
        /\ inflight[s].pc = "done" /\ inflight[s].via = "create"
        /\ inflight[s].req.status = "CREATED"
        /\ inflight[t].pc = "done" /\ inflight[t].via = "reget"
        /\ inflight[t].req.status = "OK"
        /\ inflight[t].req.actor = inflight[s].req.actor
        /\ inflight[t].req.x = inflight[s].req.x

\* What a review POST on an existing movie answers and writes.
C8_PostStep ==
    \A m \in movies :
        (/\ last'.req.op = "ReviewPost"
         /\ last'.req.actor # Anon
         /\ last'.req.x = m.id)
        => IF last'.req.y = Missing
           THEN /\ last'.req.status = "BAD_REQUEST"
                /\ UNCHANGED store
           ELSE IF \E r \in reviews : r.movie_id = m.id /\ r.user = last'.req.y
           THEN /\ last'.req.status = "BAD_REQUEST"
                /\ last'.req.msg = "already reviewed"
                /\ UNCHANGED store
           ELSE (last'.req.wellformed /\ \E u \in users : u.id = last'.req.y)
                => /\ last'.req.status = "CREATED"
                   /\ reviews \subseteq reviews'
                   /\ Cardinality(reviews' \ reviews) = 1
                   /\ \A r \in reviews' \ reviews :
                         r.movie_id = m.id /\ r.user = last'.req.y
                   /\ UNCHANGED <<users, movies, tags, collections, watchlist, favorites>>

\* C8: with requests served one after another, a review POST on an existing movie m
\* by an authenticated actor answers BAD_REQUEST and changes nothing when the body
\* names no user; answers BAD_REQUEST "already reviewed" and changes nothing when the
\* user u it names has a review of m; and answers CREATED, adding exactly the one
\* review (m, u), when u has none and the body is valid.
C8_ReviewUnique == [][C8_PostStep]_vars

\* The second review POST for one (movie, user) was refused.
C8_Witness ==
    /\ last.req.op = "ReviewPost"
    /\ last.req.status = "BAD_REQUEST"
    /\ last.req.msg = "already reviewed"
    /\ Cardinality(ReviewRows(last.req.x, last.req.y)) = 1

\* A registration field that is missing or empty once stripped.
C9_Blank(f) == f.kind = "absent" \/ Strip(f.s) = <<>>

\* What a registration POST answers and writes.
C9_PostStep ==
    LET u == last'.req.fields[1]
        e == last'.req.fields[2]
        p == last'.req.fields[3]
    IN  (last'.req.op = "SignUp" /\ "null" \notin {u.kind, e.kind, p.kind})
        => IF \/ C9_Blank(u) \/ C9_Blank(e) \/ C9_Blank(p)
              \/ Strip(p.s) \in WeakPasswords
              \/ \E x \in users : x.username = Strip(u.s)
           THEN /\ last'.req.status = "BAD_REQUEST"
                /\ UNCHANGED store
           ELSE /\ last'.req.status = "CREATED"
                /\ last'.req.msg = "token pair"
                /\ users \subseteq users'
                /\ Cardinality(users' \ users) = 1
                /\ \A x \in users' \ users : x.username = Strip(u.s)

C10_ConcurrentSignUp ==
    /\ \A x, y \in users : x.username = y.username => x = y
    /\ \A s, t \in Slots :
          (/\ s # t
           /\ inflight[s].pc = "done" /\ inflight[t].pc = "done"
           /\ inflight[s].req.op = "SignUp" /\ inflight[t].req.op = "SignUp"
           /\ inflight[s].via # "begin" /\ inflight[t].via # "begin"
           /\ inflight[s].req.name = inflight[t].req.name
           /\ \A x \in InitUsers : x.username # inflight[s].req.name)
          => /\ {inflight[s].req.status, inflight[t].req.status}
                   = {"CREATED", "BAD_REQUEST"}
             /\ {inflight[s].req.msg, inflight[t].req.msg}
                   = {"token pair", "username already exists"}

\* C11: a Tag DELETE answered NO_CONTENT for tag t leaves t out of the Tag table and
\* out of every Collection's tag set; every other Tag, every other association and
\* every other table is as before.
C11_DeleteStep ==
    (last'.req.op = "TagDelete" /\ last'.req.status = "NO_CONTENT") =>
        LET t == last'.req.x
        IN  /\ \A x \in tags' : x.id # t
            /\ \A c \in collections' : t \notin c.tags
            /\ tags' = {x \in tags : x.id # t}
            /\ \A c \in collections :
                  \E d \in collections' :
                     /\ d.id = c.id /\ d.user = c.user /\ d.is_public = c.is_public
                     /\ d.tags = c.tags \ {t}
            /\ Cardinality(collections') = Cardinality(collections)
            /\ UNCHANGED <<users, movies, watchlist, reviews, favorites>>

C11_TagDelete == [][C11_DeleteStep]_vars

\* A Tag that a Collection carried was deleted while another Tag exists.
C11_Witness ==
    /\ last.req.op = "TagDelete"
    /\ last.req.status = "NO_CONTENT"
    /\ last.req.x = 1
    /\ \E x \in tags : x.id # 1
    /\ \E c \in collections : c.id = 1 /\ 1 \notin c.tags

\* What a Favorite POST by an authenticated actor for an existing collection may do.
C12_PostStep ==
    \A c \in collections :
        (/\ last'.req.op = "FavoritePost"
         /\ last'.req.actor # Anon
         /\ last'.req.x = c.id)
        => /\ favorites' # favorites => (c.user = last'.req.actor \/ c.is_public)
           /\ ~(c.user = last'.req.actor \/ c.is_public)
                 => /\ last'.req.status = "FORBIDDEN"
                    /\ UNCHANGED store

\* C12: a Favorite POST by actor a for an existing collection c creates a Favorite row
\* only if a owns c or c is public; otherwise it answers FORBIDDEN and no Favorite row
\* is created or changed.
C12_FavoriteVisibleOnly == [][C12_PostStep]_vars

\* A Favorite POST for a private collection of another user was answered FORBIDDEN.
C12_Witness ==
    /\ last.req.op = "FavoritePost"
    /\ last.req.status = "FORBIDDEN"
    /\ \E c \in collections :
          c.id = last.req.x /\ c.user # last.req.actor /\ ~c.is_public
    /\ \A f \in favorites : f.user # last.req.actor

\* A step that answers BAD_REQUEST, FORBIDDEN or NOT_FOUND leaves the store as it was.
C13_ErrorsWriteNothing ==
    [][last'.req.status \in {"BAD_REQUEST", "FORBIDDEN", "NOT_FOUND"}
          => UNCHANGED store]_vars

\* C13: no reachable state holds part of a request's writes: once a Tag DELETE has
\* cleared the tag's associations, the Tag row is gone too (a request either applies
\* all its writes or answers an error and applies none).
C13_AllOrNothing ==
    \A s \in Slots :
        (inflight[s].req.op = "TagDelete" /\ inflight[s].req.data # {})
           => ~Exists(tags, inflight[s].req.x)

\* The handlers whose permission class is AllowAny.
C14_Open == {"TagList", "TagPost", "SignUp"}

\* What a request of an anonymous actor gets.
C14_AnonStep ==
    (last'.req.actor = Anon /\ last' # last) =>
        IF last'.req.op \in C14_Open
        THEN last'.req.status # "UNAUTHORIZED"
        ELSE /\ last'.req.status = "UNAUTHORIZED"
             /\ last'.req.data = {}
             /\ UNCHANGED store

\* C14: a request of an anonymous actor is rejected, with nothing returned and the
\* store unchanged, on every operation except Tag list, Tag create and registration,
\* which are served without authentication.
C14_AnonymousRejected == [][C14_AnonStep]_vars

\* An anonymous Movie create was rejected after an anonymous Tag create was served.
C14_Witness ==
    /\ last.req.actor = Anon
    /\ last.req.op = "MoviePost"
    /\ last.req.status = "UNAUTHORIZED"
    /\ Cardinality(tags) = 2
    /\ Cardinality(movies) = 1

C16_Reads == {"CollectionGet", "CollectionList", "PublicCollectionList", "WatchlistList",
              "WatchlistByCollection", "WatchlistGet", "WatchlistMovieStatus",
              "FavoriteList", "FavoriteGet"}

\* C16: for a private Collection c and an actor other than its owner, no read returns
\* c or a Watchlist entry of c.
C16_PrivateNotRead ==
    \A c \in collections :
        (~c.is_public /\ last.req.op \in C16_Reads /\ last.req.actor # c.user)
        => /\ <<"collection", c.id>> \notin last.req.data
           /\ \A w \in watchlist :
                 w.collection_id = c.id => <<"watchlist", w.id>> \notin last.req.data

C18_FavoritesVisible ==
    \A f \in favorites :
        \A c \in collections :
            c.id = f.collection => (c.user = f.user \/ c.is_public)

\* A Watchlist add step inserted exactly one row, for the pair it names.
C19_OneRowInserted ==
    /\ \E w \in watchlist' :
          /\ w \notin watchlist
          /\ w.collection_id = last'.req.x /\ w.movie_id = last'.req.y
          /\ watchlist' = watchlist \cup {w}
    /\ UNCHANGED <<users, movies, tags, collections, reviews, favorites>>

\* The checks of a Watchlist add by an authenticated actor, in their order; with
\* anyCollection the last case is claimed for every collection_id, without it for the
\* collection_ids that name a Collection.
C19_AddStep(anyCollection) ==
    (last'.req.op = "WatchlistAdd" /\ last'.req.actor # Anon /\ last' # last) =>
        IF last'.req.y = Missing
        THEN last'.req.status = "BAD_REQUEST" /\ UNCHANGED store
        ELSE IF \A m \in movies : m.id # last'.req.y
        THEN last'.req.status = "NOT_FOUND" /\ UNCHANGED store
        ELSE IF \E w \in watchlist :
                   w.collection_id = last'.req.x /\ w.movie_id = last'.req.y
        THEN /\ last'.req.status = "BAD_REQUEST"
             /\ last'.req.msg = "already in collection"
             /\ UNCHANGED store
        ELSE IF anyCollection \/ \E c \in collections : c.id = last'.req.x
        THEN last'.req.status = "CREATED" /\ C19_OneRowInserted
        ELSE last'.req.status = "SERVER_ERROR" /\ UNCHANGED store

C20_DeleteStep ==
    (last'.req.op = "FavoriteDelete" /\ last'.req.actor # Anon /\ last' # last) =>
        LET a == last'.req.actor
            c == last'.req.x
            mine == {f \in favorites : f.user = a /\ f.collection = c}
        IN  /\ favorites' = favorites \ mine
            /\ UNCHANGED <<users, movies, tags, collections, watchlist, reviews>>
            /\ last'.req.status = IF mine = {} THEN "NOT_FOUND" ELSE "NO_CONTENT"

\* A Favorite read returns rows of the actor only.
C20_ReadsOwn ==
    last.req.op \in {"FavoriteList", "FavoriteGet"} =>
        \A f \in favorites :
            <<"favorite", f.id>> \in last.req.data => f.user = last.req.actor

\* C20: a Favorite DELETE by a for c removes a's row for c when there is one and
\* answers NOT_FOUND with the store unchanged when there is none; the Favorite rows
\* of other users, also those for c, and the Collection stay as they were, and a
\* Favorite read returns the actor's own rows only.
C20_FavoriteDeleteOwn == []C20_ReadsOwn /\ [][C20_DeleteStep]_vars

\* A Favorite DELETE by an actor without a row for the collection was answered
\* NOT_FOUND while the row of another user for that collection stayed.
C20_Witness ==
    /\ last.req.op = "FavoriteDelete"
    /\ last.req.status = "NOT_FOUND"
    /\ last.req.actor # Anon
    /\ \E f \in favorites : f.collection = last.req.x /\ f.user # last.req.actor
====
